---- MODULE Spec2Model ----
(***************************************************************************)
(* A model of simple_http/server.py: a single-threaded HTTP/1.1 file       *)
(* server.  Byte strings and text are sequences of one-character strings,  *)
(* so every length, search, split and comparison is computed on the bytes  *)
(* themselves.  The connection loop of start_server is a state machine     *)
(* over the program counter pc; the filesystem under ~/simple_http is a    *)
(* map from resolved paths to file contents plus a set of directories.     *)
(***************************************************************************)
EXTENDS Integers, Sequences, FiniteSets, TLC

\* --------------------------------------------------------------- bounds
\* Connections the accept loop serves in one run of the model.
MaxConns == 2

\* ---------------------------------------------------------------- bytes
CR == "\r"
LF == "\n"
SP == " "
\* A byte that is never valid in UTF-8 (0xFF); decode(errors='ignore') drops it.
XFF == "0xFF"
CRLF == <<CR, LF>>
CRLFCRLF == <<CR, LF, CR, LF>>
SPACE == <<SP>>
COLON == <<":">>
SLASH == <<"/">>
QUESTION == <<"?">>
EMPTY == <<>>
\* Python's None, as a value no byte string equals.
None == <<"None">>

\* ------------------------------------------------------ program constants
BUFFER_SIZE == 4096
GET == <<"G", "E", "T">>
POST == <<"P", "O", "S", "T">>
PUT == <<"P", "U", "T">>
HEAD == <<"H", "E", "A", "D">>
HTTP_1_1 == <<"H", "T", "T", "P", "/", "1", ".", "1">>
KEY_CONTENT_LENGTH == <<"c", "o", "n", "t", "e", "n", "t", "-", "l", "e", "n", "g", "t", "h">>
Content_Type == <<"C", "o", "n", "t", "e", "n", "t", "-", "T", "y", "p", "e">>
Content_Length == <<"C", "o", "n", "t", "e", "n", "t", "-", "L", "e", "n", "g", "t", "h">>
Connection == <<"C", "o", "n", "n", "e", "c", "t", "i", "o", "n">>
Location == <<"L", "o", "c", "a", "t", "i", "o", "n">>
Allow == <<"A", "l", "l", "o", "w">>
text_html == <<"t", "e", "x", "t", "/", "h", "t", "m", "l">>
text_plain == <<"t", "e", "x", "t", "/", "p", "l", "a", "i", "n">>
application_octet_stream == <<"a", "p", "p", "l", "i", "c", "a", "t", "i", "o", "n", "/", "o", "c", "t", "e", "t", "-", "s", "t", "r", "e", "a", "m">>
close == <<"c", "l", "o", "s", "e">>
ALLOWED_METHODS == <<"G", "E", "T", ",", " ", "P", "O", "S", "T", ",", " ", "P", "U", "T", ",", " ", "H", "E", "A", "D">>
REASON_OK == <<"O", "K">>
REASON_CREATED == <<"C", "r", "e", "a", "t", "e", "d">>
REASON_BAD_REQUEST == <<"B", "a", "d", " ", "R", "e", "q", "u", "e", "s", "t">>
REASON_NOT_FOUND == <<"N", "o", "t", " ", "F", "o", "u", "n", "d">>
REASON_METHOD_NOT_ALLOWED == <<"M", "e", "t", "h", "o", "d", " ", "N", "o", "t", " ", "A", "l", "l", "o", "w", "e", "d">>
REASON_INTERNAL_SERVER_ERROR == <<"I", "n", "t", "e", "r", "n", "a", "l", " ", "S", "e", "r", "v", "e", "r", " ", "E", "r", "r", "o", "r">>
BODY_404 == <<"4", "0", "4", " ", "N", "o", "t", " ", "F", "o", "u", "n", "d">>
BODY_500 == <<"5", "0", "0", " ", "I", "n", "t", "e", "r", "n", "a", "l", " ", "S", "e", "r", "v", "e", "r", " ", "E", "r", "r", "o", "r">>
BODY_400 == <<"4", "0", "0", " ", "B", "a", "d", " ", "R", "e", "q", "u", "e", "s", "t">>
BODY_405 == <<"M", "e", "t", "h", "o", "d", " ", "N", "o", "t", " ", "A", "l", "l", "o", "w", "e", "d">>
BODY_BAD_REQUEST == <<"B", "a", "d", " ", "R", "e", "q", "u", "e", "s", "t">>
BODY_POST_STORED == <<"P", "O", "S", "T", " ", "r", "e", "c", "e", "i", "v", "e", "d", " ", "a", "n", "d", " ", "s", "t", "o", "r", "e", "d", ".">>
PUT_STORED_AS == <<"P", "U", "T", " ", "s", "t", "o", "r", "e", "d", " ", "a", "s", " ">>
BASE_DIR == <<"~", "/", "s", "i", "m", "p", "l", "e", "_", "h", "t", "t", "p">>
SERVER_ROOT == <<"~", "/", "s", "i", "m", "p", "l", "e", "_", "h", "t", "t", "p", "/", "w", "w", "w">>
POST_DATA_FILE == <<"~", "/", "s", "i", "m", "p", "l", "e", "_", "h", "t", "t", "p", "/", "p", "o", "s", "t", "_", "d", "a", "t", "a", ".", "t", "x", "t">>
INDEX_PATH == <<"/", "i", "n", "d", "e", "x", ".", "h", "t", "m", "l">>
POST_PATH == <<"/", "p", "o", "s", "t">>
DOTDOT == <<".", ".">>
EXT_HTML == <<".", "h", "t", "m", "l">>
EXT_TXT == <<".", "t", "x", "t">>
DELETE == <<"D", "E", "L", "E", "T", "E">>
get_lower == <<"g", "e", "t">>
PATH_ROOT == <<"/">>
PATH_A == <<"/", "a">>
PATH_WWW_A == <<"/", "w", "w", "w", "/", "a">>
PATH_UP == <<"/", ".", ".", "/", "a">>
PATH_MID == <<"/", "a", "/", ".", ".", "/", "b">>
PATH_QUERY_DOTS == <<"/", "a", "?", ".", ".">>
PATH_POST_QUERY == <<"/", "p", "o", "s", "t", "?", "x">>
PATH_LOG == <<"/", "p", "o", "s", "t", "_", "d", "a", "t", "a", ".", "t", "x", "t">>
INDEX_CONTENT == <<"<", "p", ">">>
TIME_0 == <<"2", "0", "2", "4", "-", "0", "1", "-", "0", "1", " ", "0", "0", ":", "0", "0", ":", "0", "0">>
TIME_1 == <<"2", "0", "2", "4", "-", "0", "1", "-", "0", "1", " ", "0", "0", ":", "0", "0", ":", "0", "1">>

\* ------------------------------------------------------- text operations
Min(S) == CHOOSE x \in S : \A y \in S : x <= y

\* The smallest index j >= i of s with s[j] not in chars, Len(s) + 1 if none.
RECURSIVE FirstIndexNotIn(_, _, _)
FirstIndexNotIn(s, chars, i) ==
    LET next == i + 1
    IN  IF i > Len(s) \/ s[i] \notin chars THEN i ELSE FirstIndexNotIn(s, chars, next)

\* The largest index j <= i of s with s[j] not in chars, 0 if none.
RECURSIVE LastIndexNotIn(_, _, _)
LastIndexNotIn(s, chars, i) ==
    LET prev == i - 1
    IN  IF i = 0 \/ s[i] \notin chars THEN i ELSE LastIndexNotIn(s, chars, prev)

\* The largest index j <= i of s with s[j] = c, 0 if none (s.rfind(c) + 1).
RECURSIVE LastIndexOf(_, _, _)
LastIndexOf(s, c, i) ==
    LET prev == i - 1
    IN  IF i = 0 \/ s[i] = c THEN i ELSE LastIndexOf(s, c, prev)

\* pat occurs in s at index i.
MatchAt(s, pat, i) ==
    /\ i + Len(pat) - 1 <= Len(s)
    /\ \A j \in 1..Len(pat) : s[i + j - 1] = pat[j]

\* Python's `pat in s`.
Contains(s, pat) == \E i \in 1..Len(s) : s[i] = pat[1] /\ MatchAt(s, pat, i)

\* Python's s.index(pat), 1-based; 0 when pat does not occur.
Find(s, pat) ==
    LET hits == {i \in 1..Len(s) : s[i] = pat[1] /\ MatchAt(s, pat, i)}
    IN  IF hits = {} THEN 0 ELSE Min(hits)

\* Python's s.split(sep, 1).
SplitOnce(s, sep) ==
    LET i == Find(s, sep)
    IN  IF i = 0 THEN <<s>>
        ELSE <<SubSeq(s, 1, i - 1), SubSeq(s, i + Len(sep), Len(s))>>

\* Python's s.split(sep).
RECURSIVE Split(_, _)
Split(s, sep) ==
    LET i == Find(s, sep)
        rest == SubSeq(s, i + Len(sep), Len(s))
    IN  IF i = 0 THEN <<s>>
        ELSE <<SubSeq(s, 1, i - 1)>> \o Split(rest, sep)

RECURSIVE Concat(_)
Concat(seqs) ==
    LET rest == Tail(seqs)
    IN  IF seqs = <<>> THEN <<>> ELSE Head(seqs) \o Concat(rest)

Whitespace == {SP, "\t", CR, LF, "\f"}

\* Python's s.strip().
Strip(s) ==
    SubSeq(s, FirstIndexNotIn(s, Whitespace, 1), LastIndexNotIn(s, Whitespace, Len(s)))

\* Python's s.lstrip(c) for a single character c.
LStrip(s, c) == SubSeq(s, FirstIndexNotIn(s, {c}, 1), Len(s))

\* Python's s.rstrip(c) for a single character c.
RStrip(s, c) == SubSeq(s, 1, LastIndexNotIn(s, {c}, Len(s)))

UpperLetters == <<"A", "B", "C", "D", "E", "F", "G", "H", "I", "J", "K", "L", "M",
                  "N", "O", "P", "Q", "R", "S", "T", "U", "V", "W", "X", "Y", "Z">>
LowerLetters == <<"a", "b", "c", "d", "e", "f", "g", "h", "i", "j", "k", "l", "m",
                  "n", "o", "p", "q", "r", "s", "t", "u", "v", "w", "x", "y", "z">>

LowerOf ==
    [c \in {UpperLetters[i] : i \in 1..Len(UpperLetters)} |->
        LowerLetters[CHOOSE i \in 1..Len(UpperLetters) : UpperLetters[i] = c]]

LowerChar(c) == IF c \in DOMAIN LowerOf THEN LowerOf[c] ELSE c

\* Python's s.lower().
Lower(s) == [i \in 1..Len(s) |-> LowerChar(s[i])]

\* bytes.decode('utf-8', errors='ignore'): invalid bytes are dropped.
Decode(bytes) == SelectSeq(bytes, LAMBDA b : b # XFF)

Digits == <<"0", "1", "2", "3", "4", "5", "6", "7", "8", "9">>
IsDigit(c) == c \in {"0", "1", "2", "3", "4", "5", "6", "7", "8", "9"}
DigitVal(c) == (CHOOSE i \in 1..Len(Digits) : Digits[i] = c) - 1

\* Whether int(s) succeeds for an already stripped s: an optional sign and
\* one or more decimal digits.  Anything else raises ValueError.
IsIntText(s) ==
    LET d == IF s # <<>> /\ s[1] \in {"+", "-"} THEN Tail(s) ELSE s
    IN  d # <<>> /\ \A i \in 1..Len(d) : IsDigit(d[i])

RECURSIVE NatOf(_)
NatOf(d) ==
    LET front == SubSeq(d, 1, Len(d) - 1)
    IN  IF d = <<>> THEN 0 ELSE 10 * NatOf(front) + DigitVal(d[Len(d)])

\* Python's int(s) where IsIntText(s).
IntOf(s) ==
    LET unsigned == Tail(s)
    IN  IF s[1] = "-" THEN 0 - NatOf(unsigned)
        ELSE IF s[1] = "+" THEN NatOf(unsigned)
        ELSE NatOf(s)

\* Python's str(n) for n >= 0.
RECURSIVE Str(_)
Str(n) ==
    LET tens == n \div 10
    IN  IF n < 10 THEN <<Digits[n + 1]>> ELSE Str(tens) \o <<Digits[(n % 10) + 1]>>

\* ------------------------------------------------------------ dictionaries
\* A Python dict: a sequence of <<key, value>> pairs in insertion order.
DictHas(d, k) == \E i \in 1..Len(d) : d[i][1] = k
DictGet(d, k) == d[CHOOSE i \in 1..Len(d) : d[i][1] = k][2]
\* d[k] = v: an existing key keeps its place and takes the new value.
DictSet(d, k, v) ==
    IF DictHas(d, k)
    THEN [i \in 1..Len(d) |-> IF d[i][1] = k THEN <<k, v>> ELSE d[i]]
    ELSE Append(d, <<k, v>>)

\* ------------------------------------------------------------ parse_request
NoRequest ==
    [method |-> None, path |-> None, version |-> None, headers |-> None, body |-> None]

\* The loop over lines[1:] that fills the headers dict.
RECURSIVE ParseHeaders(_, _)
ParseHeaders(lines, headers) ==
    IF lines = <<>> THEN headers
    ELSE LET line == Head(lines)
             rest == Tail(lines)
             kv == SplitOnce(line, COLON)
             raw_key == kv[1]
             raw_value == kv[2]
             stripped_key == Strip(raw_key)
             key == Lower(stripped_key)
             value == Strip(raw_value)
             updated == IF Contains(line, COLON)
                        THEN DictSet(headers, key, value)
                        ELSE headers
         IN  ParseHeaders(rest, updated)

\* A parser that rejects only request lines of fewer than three tokens and
\* takes the first three of a longer one: C11 fails of it.
parse_request_lenient(raw) ==
    LET split == IF Contains(raw, CRLFCRLF)
                 THEN SplitOnce(raw, CRLFCRLF)
                 ELSE <<raw, EMPTY>>
        header_part == split[1]
        body == split[2]
        header_text == Decode(header_part)
        lines == Split(header_text, CRLF)
        request_line == lines[1]
        parts == Split(request_line, SPACE)
        header_lines == Tail(lines)
    IN  IF Len(parts) < 3 THEN NoRequest
        ELSE [method |-> parts[1], path |-> parts[2], version |-> parts[3],
              headers |-> ParseHeaders(header_lines, EMPTY), body |-> body]

parse_request(raw) ==
    LET split == IF Contains(raw, CRLFCRLF)
                 THEN SplitOnce(raw, CRLFCRLF)
                 ELSE <<raw, EMPTY>>
        header_part == split[1]
        body == split[2]
        header_text == Decode(header_part)
        lines == Split(header_text, CRLF)
        request_line == lines[1]
        parts == Split(request_line, SPACE)
        header_lines == Tail(lines)
    IN  IF Len(parts) # 3 THEN NoRequest
        ELSE [method |-> parts[1], path |-> parts[2], version |-> parts[3],
              headers |-> ParseHeaders(header_lines, EMPTY), body |-> body]

\* -------------------------------------------------------------- filesystem
\* The filesystem is `files`, a function from a resolved path (its sequence
\* of components) to the file's bytes, and `dirs`, the set of resolved
\* paths that are directories.  "~" is the home directory expanduser names.

\* os.path.join(a, b).
os_path_join(a, b) ==
    IF b # <<>> /\ b[1] = "/" THEN b
    ELSE IF a = <<>> \/ a[Len(a)] = "/" THEN a \o b
    ELSE a \o SLASH \o b

\* Index of the last "/" of p, 0 when there is none (p.rfind('/') + 1).
LastSlash(p) == LastIndexOf(p, "/", Len(p))

\* os.path.dirname(p).
os_path_dirname(p) ==
    LET head == SubSeq(p, 1, LastSlash(p))
    IN  IF head # <<>> /\ \E i \in 1..Len(head) : head[i] # "/"
        THEN RStrip(head, "/")
        ELSE head

\* os.path.basename(p).
os_path_basename(p) == SubSeq(p, LastSlash(p) + 1, Len(p))

\* The kernel's resolution of a path without symlinks or "..": empty and "."
\* components name nothing.
Components(p) ==
    LET parts == Split(p, SLASH)
    IN  SelectSeq(parts, LAMBDA c : c # <<>> /\ c # <<".">>)

\* A path whose last component is empty or "." can only name a directory.
NamesDirectory(p) ==
    LET parts == Split(p, SLASH)
    IN  parts[Len(parts)] \in {<<>>, <<".">>}

PrefixesOf(key) == {SubSeq(key, 1, n) : n \in 0..Len(key)}

\* os.path.isfile(p).
isfile(p, fs_files) == ~NamesDirectory(p) /\ Components(p) \in DOMAIN fs_files

\* Whether os.makedirs(d, exist_ok=True) succeeds: no component of d is a file.
makedirs_ok(d, fs_files) ==
    LET key == Components(d)
    IN  PrefixesOf(key) \cap DOMAIN fs_files = {}

\* The directories after a successful os.makedirs(d, exist_ok=True).
makedirs(d, fs_dirs) ==
    LET key == Components(d)
    IN  fs_dirs \cup PrefixesOf(key)

\* Whether open(p, 'wb') or open(p, 'a') succeeds: p does not name a
\* directory and its parent is one.
open_write_ok(p, fs_files, fs_dirs) ==
    LET key == Components(p)
    IN  /\ ~NamesDirectory(p)
        /\ key # <<>>
        /\ key \notin fs_dirs
        /\ SubSeq(key, 1, Len(key) - 1) \in fs_dirs

\* A write that appends to what the file held: C8 fails of it.
write_file_appending(p, bytes, fs_files) ==
    LET key == Components(p)
        old == IF key \in DOMAIN fs_files THEN fs_files[key] ELSE <<>>
    IN  [k \in DOMAIN fs_files \cup {key} |-> IF k = key THEN old \o bytes ELSE fs_files[k]]

\* The files after p is given the content bytes.
write_file(p, bytes, fs_files) ==
    LET key == Components(p)
    IN  [k \in DOMAIN fs_files \cup {key} |-> IF k = key THEN bytes ELSE fs_files[k]]

\* The content of the file at p, empty when there is no such file.
file_content(p, fs_files) ==
    LET key == Components(p)
    IN  IF key \in DOMAIN fs_files THEN fs_files[key] ELSE <<>>

\* Points at which the operating system may fail a handler's file operation
\* (permission, disk full, a file that disappears): none, or the call that
\* raises, among the calls the handler of `method` makes.
IOFaults(method) ==
    IF method = GET THEN {"none", "read"}
    ELSE IF method = HEAD THEN {"none", "getsize"}
    ELSE IF method = POST THEN {"none", "open", "write"}
    ELSE IF method = PUT THEN {"none", "makedirs", "open", "write"}
    ELSE {"none"}

\* ------------------------------------------------------------ resolve_path
\* A check that looks for '..' only at the start of the path: C10 fails of it.
HasTraversalAtStart(relative_path) == MatchAt(relative_path, DOTDOT, 1)

\* The traversal check of resolve_path and handle_put: '..' in relative_path.
HasTraversal(relative_path) == Contains(relative_path, DOTDOT)

resolve_path(http_path) ==
    LET no_query == IF Contains(http_path, QUESTION)
                    THEN Split(http_path, QUESTION)[1]
                    ELSE http_path
        with_index == IF no_query = SLASH THEN INDEX_PATH ELSE no_query
        relative_path == LStrip(with_index, "/")
    IN  IF HasTraversal(relative_path) THEN None
        ELSE os_path_join(SERVER_ROOT, relative_path)

\* ----------------------------------------------------------- get_mime_type
\* The extension mimetypes.guess_type looks up: from the last "." of the
\* last component, unless that "." starts the component.
Extension(filepath) ==
    LET name == os_path_basename(filepath)
        dot == LastIndexOf(name, ".", Len(name))
    IN  IF dot < 2 THEN <<>> ELSE SubSeq(name, dot, Len(name))

get_mime_type(filepath) ==
    LET found == Extension(filepath)
        ext == Lower(found)
    IN  IF ext = EXT_HTML THEN text_html
        ELSE IF ext = EXT_TXT THEN text_plain
        ELSE application_octet_stream

\* ---------------------------------------------------------- build_response
build_response(status_code, reason, headers, body) ==
    LET status_line == HTTP_1_1 \o SPACE \o Str(status_code) \o SPACE \o reason \o CRLF
        header_lines == [i \in 1..Len(headers) |->
                            headers[i][1] \o <<":", SP>> \o headers[i][2] \o CRLF]
    IN  status_line \o Concat(header_lines) \o CRLF \o body

\* What a handler returns and leaves behind: the response bytes and the
\* filesystem after it ran.
Outcome(response_bytes, fs_files, fs_dirs) ==
    [response |-> response_bytes, files |-> fs_files, dirs |-> fs_dirs]

\* The 500 response of handle_get, handle_post and handle_put.
InternalServerError ==
    LET body == BODY_500
        response_headers == << <<Content_Type, text_html>>,
                               <<Content_Length, Str(Len(body))>>,
                               <<Connection, close>> >>
    IN  build_response(500, REASON_INTERNAL_SERVER_ERROR, response_headers, body)

\* ------------------------------------------------------ handle_unsupported
handle_unsupported(method) ==
    LET body == BODY_405
        response_headers == << <<Content_Type, text_plain>>,
                               <<Allow, ALLOWED_METHODS>>,
                               <<Content_Length, Str(Len(body))>>,
                               <<Connection, close>> >>
    IN  build_response(405, REASON_METHOD_NOT_ALLOWED, response_headers, body)

\* ---------------------------------------------------------------- handle_get
\* A 404 that declares the length handle_head declares: C5 fails of it.
GetNotFoundDeclaring14 ==
    LET body == BODY_404
        response_headers == << <<Content_Type, text_html>>,
                               <<Content_Length, <<"1", "4">>>>,
                               <<Connection, close>> >>
    IN  build_response(404, REASON_NOT_FOUND, response_headers, body)

\* The 404 response of handle_get.
GetNotFound ==
    LET body == BODY_404
        response_headers == << <<Content_Type, text_html>>,
                               <<Content_Length, Str(Len(body))>>,
                               <<Connection, close>> >>
    IN  build_response(404, REASON_NOT_FOUND, response_headers, body)

handle_get(path, fs_files, fs_dirs, fault) ==
    LET filepath == resolve_path(path)
        body == file_content(filepath, fs_files)
        mime_type == get_mime_type(filepath)
        response_headers == << <<Content_Type, mime_type>>,
                               <<Content_Length, Str(Len(body))>>,
                               <<Connection, close>> >>
    IN  IF filepath = None \/ ~isfile(filepath, fs_files)
        THEN Outcome(GetNotFound, fs_files, fs_dirs)
        ELSE IF fault = "read"
        THEN Outcome(InternalServerError, fs_files, fs_dirs)
        ELSE Outcome(build_response(200, REASON_OK, response_headers, body),
                     fs_files, fs_dirs)

\* --------------------------------------------------------------- handle_head
\* The 404 response of handle_head.
HeadNotFound ==
    LET response_headers == << <<Content_Type, text_html>>,
                               <<Content_Length, <<"1", "4">>>>,
                               <<Connection, close>> >>
    IN  build_response(404, REASON_NOT_FOUND, response_headers, EMPTY)

\* The 500 response of handle_head.
HeadInternalServerError ==
    LET response_headers == << <<Content_Type, text_html>>,
                               <<Content_Length, <<"2", "6">>>>,
                               <<Connection, close>> >>
    IN  build_response(500, REASON_INTERNAL_SERVER_ERROR, response_headers, EMPTY)

\* A HEAD that reports the type of its error responses for every file: C13
\* fails of it.
handle_head_as_html(path, fs_files, fs_dirs, fault) ==
    LET filepath == resolve_path(path)
        file_size == Len(file_content(filepath, fs_files))
        response_headers == << <<Content_Type, text_html>>,
                               <<Content_Length, Str(file_size)>>,
                               <<Connection, close>> >>
    IN  IF filepath = None \/ ~isfile(filepath, fs_files)
        THEN Outcome(HeadNotFound, fs_files, fs_dirs)
        ELSE IF fault = "getsize"
        THEN Outcome(HeadInternalServerError, fs_files, fs_dirs)
        ELSE Outcome(build_response(200, REASON_OK, response_headers, EMPTY),
                     fs_files, fs_dirs)

handle_head(path, fs_files, fs_dirs, fault) ==
    LET filepath == resolve_path(path)
        file_size == Len(file_content(filepath, fs_files))
        mime_type == get_mime_type(filepath)
        response_headers == << <<Content_Type, mime_type>>,
                               <<Content_Length, Str(file_size)>>,
                               <<Connection, close>> >>
    IN  IF filepath = None \/ ~isfile(filepath, fs_files)
        THEN Outcome(HeadNotFound, fs_files, fs_dirs)
        ELSE IF fault = "getsize"
        THEN Outcome(HeadInternalServerError, fs_files, fs_dirs)
        ELSE Outcome(build_response(200, REASON_OK, response_headers, EMPTY),
                     fs_files, fs_dirs)

\* --------------------------------------------------------------- handle_post
\* The entry handle_post appends: "\n[timestamp]\n", the decoded body, "\n".
LogEntry(timestamp, body) ==
    <<LF, "[">> \o timestamp \o <<"]", LF>> \o Decode(body) \o <<LF>>

\* The 200 response of handle_post.
PostStored ==
    LET response_body == BODY_POST_STORED
        response_headers == << <<Content_Type, text_plain>>,
                               <<Content_Length, Str(Len(response_body))>>,
                               <<Connection, close>> >>
    IN  build_response(200, REASON_OK, response_headers, response_body)

\* A POST handler that appends whatever the path is: C20 fails of it.
handle_post_any_path(path, body, fs_files, fs_dirs, fault, timestamp) ==
    LET before == file_content(POST_DATA_FILE, fs_files)
        after == before \o LogEntry(timestamp, body)
    IN  IF fault = "open" \/ ~open_write_ok(POST_DATA_FILE, fs_files, fs_dirs)
        THEN Outcome(InternalServerError, fs_files, fs_dirs)
        ELSE IF fault = "write"
        THEN Outcome(InternalServerError,
                     write_file(POST_DATA_FILE, before, fs_files), fs_dirs)
        ELSE Outcome(PostStored, write_file(POST_DATA_FILE, after, fs_files), fs_dirs)

handle_post(path, body, fs_files, fs_dirs, fault, timestamp) ==
    LET before == file_content(POST_DATA_FILE, fs_files)
        after == before \o LogEntry(timestamp, body)
    IN  IF path # POST_PATH
        THEN Outcome(handle_unsupported(POST), fs_files, fs_dirs)
        ELSE IF fault = "open" \/ ~open_write_ok(POST_DATA_FILE, fs_files, fs_dirs)
        THEN Outcome(InternalServerError, fs_files, fs_dirs)
        ELSE IF fault = "write"
        THEN \* opened for append (created when absent), nothing reached the file
             Outcome(InternalServerError,
                     write_file(POST_DATA_FILE, before, fs_files), fs_dirs)
        ELSE Outcome(PostStored, write_file(POST_DATA_FILE, after, fs_files), fs_dirs)

\* ---------------------------------------------------------------- handle_put
\* A refusal of a '..' path with status 403: C17 fails of it.
PutForbidden ==
    LET response_body == BODY_400
        response_headers == << <<Content_Type, text_plain>>,
                               <<Content_Length, Str(Len(response_body))>>,
                               <<Connection, close>> >>
    IN  build_response(403, REASON_BAD_REQUEST, response_headers, response_body)

\* The 400 response of handle_put.
PutBadRequest ==
    LET response_body == BODY_400
        response_headers == << <<Content_Type, text_plain>>,
                               <<Content_Length, Str(Len(response_body))>>,
                               <<Connection, close>> >>
    IN  build_response(400, REASON_BAD_REQUEST, response_headers, response_body)

handle_put(path, body, fs_files, fs_dirs, fault) ==
    LET relative_path == LStrip(path, "/")
        full_path == os_path_join(BASE_DIR, relative_path)
        file_exists == isfile(full_path, fs_files)
        parent == os_path_dirname(full_path)
        dirs_made == makedirs(parent, fs_dirs)
        filename == os_path_basename(full_path)
        response_body == PUT_STORED_AS \o filename
        headers_200 == << <<Content_Type, text_plain>>,
                          <<Content_Length, Str(Len(response_body))>>,
                          <<Connection, close>> >>
        headers_201 == << <<Content_Type, text_plain>>,
                          <<Content_Length, Str(Len(response_body))>>,
                          <<Location, path>>,
                          <<Connection, close>> >>
    IN  IF HasTraversal(relative_path)
        THEN Outcome(PutBadRequest, fs_files, fs_dirs)
        ELSE IF fault = "makedirs" \/ ~makedirs_ok(parent, fs_files)
        THEN Outcome(InternalServerError, fs_files, fs_dirs)
        ELSE IF fault = "open" \/ ~open_write_ok(full_path, fs_files, dirs_made)
        THEN Outcome(InternalServerError, fs_files, dirs_made)
        ELSE IF fault = "write"
        THEN \* opened 'wb' (created or truncated), the write failed
             Outcome(InternalServerError, write_file(full_path, EMPTY, fs_files), dirs_made)
        ELSE IF file_exists
        THEN Outcome(build_response(200, REASON_OK, headers_200, response_body),
                     write_file(full_path, body, fs_files), dirs_made)
        ELSE Outcome(build_response(201, REASON_CREATED, headers_201, response_body),
                     write_file(full_path, body, fs_files), dirs_made)

\* ------------------------------------------------------------ handle_request
\* A dispatch that compares the method token without regard to case: C12
\* fails of it.
handle_request_ignoring_case(method, path, version, headers, body, fs_files, fs_dirs, fault, timestamp) ==
    LET m == Lower(method)
    IN  IF m = Lower(GET) THEN handle_get(path, fs_files, fs_dirs, fault)
        ELSE IF m = Lower(POST) THEN handle_post(path, body, fs_files, fs_dirs, fault, timestamp)
        ELSE IF m = Lower(PUT) THEN handle_put(path, body, fs_files, fs_dirs, fault)
        ELSE IF m = Lower(HEAD) THEN handle_head(path, fs_files, fs_dirs, fault)
        ELSE Outcome(handle_unsupported(method), fs_files, fs_dirs)

handle_request(method, path, version, headers, body, fs_files, fs_dirs, fault, timestamp) ==
    IF method = GET THEN handle_get(path, fs_files, fs_dirs, fault)
    ELSE IF method = POST THEN handle_post(path, body, fs_files, fs_dirs, fault, timestamp)
    ELSE IF method = PUT THEN handle_put(path, body, fs_files, fs_dirs, fault)
    ELSE IF method = HEAD THEN handle_head(path, fs_files, fs_dirs, fault)
    ELSE Outcome(handle_unsupported(method), fs_files, fs_dirs)

\* The 400 response start_server builds when parse_request returns None.
BadRequestResponse ==
    LET response_headers == << <<Content_Length, <<"1", "1">>>>,
                               <<Connection, close>> >>
    IN  build_response(400, REASON_BAD_REQUEST, response_headers, BODY_BAD_REQUEST)

\* ------------------------------------------------------------------ peers
\* What a peer may send on a connection: a request line, header lines, the
\* blank line and a body.
Request(method, path, header_lines, body) ==
    method \o SPACE \o path \o SPACE \o HTTP_1_1 \o CRLF
        \o Concat([i \in 1..Len(header_lines) |-> header_lines[i] \o CRLF])
        \o CRLF \o body

ContentLengthLine(value) == Content_Length \o <<":", SP>> \o value

Streams ==
    { Request(GET, PATH_ROOT, <<>>, <<>>),
      Request(GET, INDEX_PATH, <<ContentLengthLine(<<"2">>)>>, <<"x", "y">>),
      Request(GET, PATH_A, <<>>, <<>>),
      Request(GET, PATH_MID, <<>>, <<>>),
      Request(GET, PATH_QUERY_DOTS, <<>>, <<>>),
      Request(HEAD, INDEX_PATH, <<>>, <<>>),
      Request(HEAD, PATH_A, <<>>, <<>>),
      Request(HEAD, PATH_UP, <<>>, <<>>),
      Request(POST, POST_PATH, <<<<"X">>, ContentLengthLine(<<"2">>)>>, <<XFF, "i">>),
      Request(POST, POST_PATH, <<>>, <<"i">>),
      Request(POST, PATH_POST_QUERY, <<>>, <<>>),
      Request(PUT, PATH_WWW_A, <<ContentLengthLine(<<"1">>)>>, <<"x">>),
      Request(PUT, PATH_WWW_A,
              <<ContentLengthLine(<<"0">>), KEY_CONTENT_LENGTH \o <<":", "1">>>>, <<"z">>),
      Request(PUT, PATH_WWW_A, <<>>, <<"x">>),
      Request(PUT, PATH_WWW_A, <<ContentLengthLine(<<"x", "1">>)>>, <<"z">>),
      Request(PUT, PATH_LOG, <<ContentLengthLine(<<"1">>)>>, <<"z">>),
      Request(PUT, PATH_MID, <<ContentLengthLine(<<"1">>)>>, <<"z">>),
      Request(PUT, PATH_ROOT, <<>>, <<>>),
      Request(DELETE, INDEX_PATH, <<>>, <<>>),
      Request(get_lower, INDEX_PATH, <<>>, <<>>),
      GET \o SPACE \o PATH_ROOT \o CRLFCRLF,
      GET \o SPACE \o SPACE \o PATH_ROOT \o SPACE \o HTTP_1_1 \o CRLFCRLF }

\* The values datetime.now() may format to, where the handler reads the clock.
Clock(method) == IF method = POST THEN {TIME_0, TIME_1} ELSE {TIME_0}

\* ------------------------------------------------------------------ state
VARIABLES
    pc,                  \* where start_server is: "accept", "recv" (line 332),
                         \* "recv_body" (line 348), "parse" (line 359),
                         \* "send" (line 371), "close" (line 377), "stopped"
    conns,               \* connections accepted so far
    unsent,              \* bytes the peer has still to send on this connection
    raw_request,         \* start_server's raw_request
    chunk_empty,         \* `not chunk` for the last value recv returned
    content_length,      \* start_server's content_length
    current_body_length, \* start_server's current_body_length
    request,             \* (method, path, version, headers, body) of line 359
    response,            \* start_server's response, None before it is built
    sent,                \* the bytes sendall wrote to the socket, None if none
    exc,                 \* the exception the handler at line 373 caught
    closes,              \* calls of client_socket.close() on this connection
    files,               \* the filesystem's regular files
    dirs                 \* the filesystem's directories

vars == <<pc, conns, unsent, raw_request, chunk_empty, content_length,
          current_body_length, request, response, sent, exc, closes, files, dirs>>

fs == <<files, dirs>>

\* The read loop's variables and the parsed request are not read again once
\* the connection is past them; they are cleared there.
ReaderCleared ==
    /\ unsent' = <<>>
    /\ raw_request' = <<>>
    /\ chunk_empty' = FALSE
    /\ content_length' = 0
    /\ current_body_length' = 0

Init ==
    /\ pc = "accept"
    /\ conns = 0
    /\ unsent = <<>>
    /\ raw_request = <<>>
    /\ chunk_empty = FALSE
    /\ content_length = 0
    /\ current_body_length = 0
    /\ request = NoRequest
    /\ response = None
    /\ sent = None
    /\ exc = "none"
    /\ closes = 0
    /\ files = [k \in {Components(resolve_path(PATH_ROOT))} |-> INDEX_CONTENT]
    /\ dirs = PrefixesOf(Components(SERVER_ROOT))

\* ------------------------------------------------------------ start_server
\* server_socket.accept() returns a connection; the peer behind it will send
\* some prefix of one of Streams.
Accept ==
    /\ pc = "accept"
    /\ conns < MaxConns
    /\ \E s \in Streams : unsent' = s
    /\ conns' = conns + 1
    /\ raw_request' = <<>>
    /\ chunk_empty' = FALSE
    /\ content_length' = 0
    /\ current_body_length' = 0
    /\ request' = NoRequest
    /\ response' = None
    /\ sent' = None
    /\ exc' = "none"
    /\ closes' = 0
    /\ pc' = "recv"
    /\ UNCHANGED fs

\* The chunks client_socket.recv(BUFFER_SIZE) may return: any non-empty
\* prefix of what the peer has still to send, of at most BUFFER_SIZE bytes,
\* or the empty chunk when the peer has closed.
RecvSizes == 0..(IF Len(unsent) < BUFFER_SIZE THEN Len(unsent) ELSE BUFFER_SIZE)

\* A reader that never takes the break on an empty chunk: C2 fails of it.
PeerClosedNever(empty) == FALSE

\* `if not chunk: break` (lines 349 and 355), on whether the chunk is empty.
PeerClosed(empty) == empty

\* A reader without a body loop, taking what the first chunks brought: C19
\* fails of it.
NeedMoreBodyNever(current, declared) == FALSE

\* A body loop that asks for one byte too many: C3 fails of it.
NeedMoreBodyInclusive(current, declared) == current <= declared

\* `while current_body_length < content_length` (line 347).
NeedMoreBody(current, declared) == current < declared

\* body_start (line 343): the 0-based index just after the first CRLF CRLF.
BodyStart(raw) == (Find(raw, CRLFCRLF) - 1) + 4

\* The peer's remaining bytes after the reader stopped are never read.
ReaderStops == pc' = "parse" /\ unsent' = <<>>

\* One pass of the outer read loop (lines 332-356).
Recv ==
    /\ pc = "recv"
    /\ \E k \in RecvSizes :
        LET c == SubSeq(unsent, 1, k)
            raw == raw_request \o c
            req == parse_request(raw)
            declared == DictGet(req.headers, KEY_CONTENT_LENGTH)
        IN  /\ chunk_empty' = (c = <<>>)
            /\ IF Contains(raw, CRLFCRLF)
               THEN IF req.method \in {POST, PUT} /\ DictHas(req.headers, KEY_CONTENT_LENGTH)
                    THEN IF ~IsIntText(declared)
                         THEN \* int() raises ValueError, caught at line 373
                              /\ exc' = "ValueError"
                              /\ pc' = "close"
                              /\ unsent' = <<>>
                              /\ raw_request' = <<>>
                              /\ UNCHANGED <<content_length, current_body_length>>
                         ELSE /\ raw_request' = raw
                              /\ content_length' = IntOf(declared)
                              /\ current_body_length' = Len(raw) - BodyStart(raw)
                              /\ IF NeedMoreBody(current_body_length', content_length')
                                 THEN pc' = "recv_body" /\ unsent' = SubSeq(unsent, k + 1, Len(unsent))
                                 ELSE ReaderStops
                              /\ exc' = exc
                    ELSE /\ raw_request' = raw
                         /\ ReaderStops
                         /\ UNCHANGED <<content_length, current_body_length, exc>>
               ELSE /\ raw_request' = raw
                    /\ IF PeerClosed(chunk_empty')
                       THEN ReaderStops
                       ELSE pc' = "recv" /\ unsent' = SubSeq(unsent, k + 1, Len(unsent))
                    /\ UNCHANGED <<content_length, current_body_length, exc>>
    /\ UNCHANGED <<conns, request, response, sent, closes, fs>>

\* One pass of the body loop (lines 347-352), and the break at line 353 when
\* it ends.
RecvBody ==
    /\ pc = "recv_body"
    /\ \E k \in RecvSizes :
        LET c == SubSeq(unsent, 1, k)
        IN  /\ chunk_empty' = (c = <<>>)
            /\ IF PeerClosed(chunk_empty')
               THEN /\ ReaderStops
                    /\ UNCHANGED <<raw_request, current_body_length>>
               ELSE /\ raw_request' = raw_request \o c
                    /\ current_body_length' = current_body_length + Len(c)
                    /\ IF NeedMoreBody(current_body_length', content_length)
                       THEN pc' = "recv_body" /\ unsent' = SubSeq(unsent, k + 1, Len(unsent))
                       ELSE ReaderStops
    /\ UNCHANGED <<conns, content_length, request, response, sent, exc, closes, fs>>

\* A failed receive that returns to accept past the finally: C7 fails of it.
RecvErrorSkippingClose ==
    /\ pc \in {"recv", "recv_body"}
    /\ exc' = "OSError"
    /\ pc' = "accept"
    /\ ReaderCleared
    /\ UNCHANGED <<conns, request, response, sent, closes, fs>>

\* client_socket.recv raises (the peer reset the connection): line 373.
RecvError ==
    /\ pc \in {"recv", "recv_body"}
    /\ exc' = "OSError"
    /\ pc' = "close"
    /\ ReaderCleared
    /\ UNCHANGED <<conns, request, response, sent, closes, fs>>

\* Lines 359-368: parse the buffer, then answer 400 or run the handler.
HandleRequest ==
    /\ pc = "parse"
    /\ LET req == parse_request(raw_request)
       IN  /\ request' = req
           /\ IF req.method = None
              THEN /\ response' = BadRequestResponse
                   /\ UNCHANGED fs
              ELSE \E fault \in IOFaults(req.method), timestamp \in Clock(req.method) :
                       LET out == handle_request(req.method, req.path, req.version,
                                                 req.headers, req.body,
                                                 files, dirs, fault, timestamp)
                       IN  /\ response' = out.response
                           /\ files' = out.files
                           /\ dirs' = out.dirs
    /\ pc' = "send"
    /\ ReaderCleared
    /\ UNCHANGED <<conns, sent, exc, closes>>

\* client_socket.sendall(response) (line 371).
Send ==
    /\ pc = "send"
    /\ sent' = response
    /\ pc' = "close"
    /\ request' = NoRequest
    /\ response' = None
    /\ UNCHANGED <<conns, unsent, raw_request, chunk_empty, content_length,
                   current_body_length, exc, closes, fs>>

\* A failed sendall whose exception leaves the accept loop and ends the
\* server: C16 fails of it.
SendErrorEscaping ==
    /\ pc = "send"
    /\ exc' = "OSError"
    /\ pc' = "stopped"
    /\ closes' = closes + 1
    /\ request' = NoRequest
    /\ response' = None
    /\ UNCHANGED <<conns, unsent, raw_request, chunk_empty, content_length,
                   current_body_length, sent, fs>>

\* sendall raises (the peer is gone): line 373.
SendError ==
    /\ pc = "send"
    /\ exc' = "OSError"
    /\ pc' = "close"
    /\ request' = NoRequest
    /\ response' = None
    /\ UNCHANGED <<conns, unsent, raw_request, chunk_empty, content_length,
                   current_body_length, sent, closes, fs>>

\* finally: client_socket.close() (lines 375-377), then back to accept.
Close ==
    /\ pc = "close"
    /\ closes' = closes + 1
    /\ pc' = "accept"
    /\ UNCHANGED <<conns, unsent, raw_request, chunk_empty, content_length,
                   current_body_length, request, response, sent, exc, fs>>

\* KeyboardInterrupt (lines 379-382), delivered while the server is blocked
\* in accept, recv or sendall: the finally of an open connection closes its
\* socket, then the listening socket is closed.
Interrupt ==
    /\ pc \in {"accept", "recv", "recv_body", "send"}
    /\ closes' = IF pc = "accept" THEN closes ELSE closes + 1
    /\ pc' = "stopped"
    /\ ReaderCleared
    /\ request' = NoRequest
    /\ response' = None
    /\ UNCHANGED <<conns, sent, exc, fs>>

Next ==
    \/ Accept
    \/ Recv
    \/ RecvBody
    \/ RecvError
    \/ HandleRequest
    \/ Send
    \/ SendError
    \/ Close
    \/ Interrupt

Spec == Init /\ [][Next]_vars

\* The server left to run, no KeyboardInterrupt delivered.
Serving ==
    \/ Accept
    \/ Recv
    \/ RecvBody
    \/ RecvError
    \/ HandleRequest
    \/ Send
    \/ SendError
    \/ Close

\* No call blocks for ever: while the server waits in client_socket.recv
\* (line 332 or 348) the peer sends, closes or resets and the call returns,
\* and parse_request and the handler (lines 359-368) return.
CallsReturn ==
    \/ []<>(pc \notin {"recv", "recv_body", "parse"})
    \/ []<><<pc \in {"recv", "recv_body", "parse"}>>_vars

\* After that the sequential code runs on: sendall returns or raises, and
\* the finally calls close.
LiveSpec ==
    /\ Init
    /\ [][Serving]_vars
    /\ CallsReturn
    /\ WF_vars(Send)
    /\ WF_vars(Close)

\* ================================================================ properties
\* What a client sees of a response: the bytes on the wire, read back as
\* HTTP/1.1 (status line, header lines, blank line, body).
WireHead(resp) == SubSeq(resp, 1, Find(resp, CRLFCRLF) - 1)
WireBody(resp) == SubSeq(resp, Find(resp, CRLFCRLF) + 4, Len(resp))
WireLines(resp) ==
    LET head == WireHead(resp)
    IN  Split(head, CRLF)
WireStatus(resp) ==
    LET status_line == WireLines(resp)[1]
    IN  Split(status_line, SPACE)[2]
WireValues(resp, name) ==
    LET lines == WireLines(resp)
        field == name \o <<":", SP>>
    IN  {SubSeq(lines[i], Len(field) + 1, Len(lines[i])) :
            i \in {j \in 2..Len(lines) : MatchAt(lines[j], field, 1)}}
WireHas(resp, name) == WireValues(resp, name) # {}
StatusIs(resp, code) == WireStatus(resp) = Str(code)

\* The request the handler at line 368 was given declares a body length.
DeclaresLength(req) ==
    /\ req.method \in {POST, PUT}
    /\ DictHas(req.headers, KEY_CONTENT_LENGTH)
    /\ IsIntText(DictGet(req.headers, KEY_CONTENT_LENGTH))
DeclaredLength(req) == IntOf(DictGet(req.headers, KEY_CONTENT_LENGTH))

\* C1: whenever a POST or PUT request carrying Content-Length n has been
\* handed to its handler, the body the handler was given holds at least n
\* bytes, whatever the peer did.
C1_BodyCompleteAtHandler ==
    (pc = "send" /\ DeclaresLength(request))
        => Len(request.body) >= DeclaredLength(request)

\* C2: a receive that returns no bytes ends the read loop: the next step of
\* the connection is the parse of line 359, on the bytes accumulated so far,
\* and never another receive.
C2_ZeroLengthReceiveEndsReading ==
    [][(pc \in {"recv", "recv_body"} /\ chunk_empty')
          => (pc' = "parse" /\ raw_request' = raw_request)]_vars

\* The peer closed before a declared body was complete and the buffer went to
\* the parser.
C2_Witness ==
    /\ pc = "parse"
    /\ chunk_empty
    /\ Contains(raw_request, CRLFCRLF)
    /\ current_body_length < content_length

\* The buffer holds a complete request: the header terminator, and for a POST
\* or PUT that declares a length, that many body bytes after it.
RequestComplete(raw) ==
    /\ Contains(raw, CRLFCRLF)
    /\ LET req == parse_request(raw)
       IN  DeclaresLength(req) => Len(raw) - (Find(raw, CRLFCRLF) + 3) >= DeclaredLength(req)

\* C3: the server is about to receive again only while the accumulated buffer
\* is not a complete request: it lacks CRLF CRLF, or it is a POST or PUT with
\* Content-Length n and fewer than n bytes after the terminator. The buffer is
\* judged as a whole, however the bytes were split into chunks.
C3_ReceivesOnlyWhileIncomplete ==
    pc \in {"recv", "recv_body"} => ~RequestComplete(raw_request)

\* A declared body was read up to its last byte and reading stopped on the
\* chunk that completed it.
C3_Witness ==
    /\ pc = "parse"
    /\ ~chunk_empty
    /\ content_length > 0
    /\ current_body_length = content_length
    /\ RequestComplete(raw_request)

\* C4: a connection that failed before its request was parsed is closed only
\* after a 400 or 500 response was sent on it.
C4_FailureBeforeParsingIsAnswered ==
    (pc = "close" /\ exc = "ValueError")
        => (sent # None /\ (StatusIs(sent, 400) \/ StatusIs(sent, 500)))

\* The Content-Length a response declares is the length of its body.
DeclaresItsBodyLength(resp) ==
    LET body == WireBody(resp)
    IN  WireValues(resp, Content_Length) = {Str(Len(body))}

\* C5 as stated: every response about to be sent declares, as Content-Length,
\* the number of bytes of the body it carries.
C5_EveryResponseDeclaresItsBodyLength ==
    pc = "send" => DeclaresItsBodyLength(response)

\* C5: every response to a request whose method is not HEAD, the 400 for an
\* unparseable request included, declares as Content-Length the number of
\* bytes of the body it carries.
C5_NonHeadResponseDeclaresItsBodyLength ==
    (pc = "send" /\ request.method # HEAD) => DeclaresItsBodyLength(response)

\* A file was served by GET: the length is computed from the bytes read.
C5_Witness ==
    /\ pc = "send"
    /\ request.method = GET
    /\ StatusIs(response, 200)
    /\ WireBody(response) = INDEX_CONTENT
    /\ DeclaresItsBodyLength(response)

\* C6: every response about to be sent, the 400 for an unparseable request
\* included, carries Content-Type, Content-Length and Connection: close.
C6_EveryResponseHasTheThreeHeaders ==
    pc = "send" =>
        /\ WireHas(response, Content_Type)
        /\ WireHas(response, Content_Length)
        /\ WireValues(response, Connection) = {close}

\* C7: an accepted connection's socket is not closed while the connection is
\* being served, and has been closed exactly once when the server is back at
\* accept or has stopped, whichever way handling ended.
C7_ClosedExactlyOnce ==
    /\ pc \in {"recv", "recv_body", "parse", "send", "close"} => closes = 0
    /\ (pc \in {"accept", "stopped"} /\ conns > 0) => closes = 1

\* A connection whose handling failed with an exception has been closed.
C7_Witness ==
    /\ pc = "accept"
    /\ conns > 0
    /\ exc = "OSError"
    /\ sent = None
    /\ closes = 1

\* The file a PUT to path names, under the PUT base directory.
PutTarget(path) == Components(BASE_DIR \o SLASH \o path)

\* The step on which the handler of line 368 ran for a request of method m.
Handled(m) == pc = "parse" /\ pc' = "send" /\ request'.method = m

\* C8: a PUT whose path has no '..' and whose file operations do not fail
\* leaves the target file holding exactly the request body; it answers 201
\* with Location equal to the request path when the target did not exist and
\* 200 without Location when it did. No step removes a file, so the PUT that
\* follows a 201 on the same path finds the target and answers 200.
C8_PutCreatesThenReplaces ==
    [][/\ DOMAIN files \subseteq DOMAIN files'
       /\ (Handled(PUT) /\ ~Contains(request'.path, DOTDOT) /\ ~StatusIs(response', 500))
            => LET target == PutTarget(request'.path)
               IN  /\ target \in DOMAIN files'
                   /\ files'[target] = request'.body
                   /\ IF target \in DOMAIN files
                      THEN /\ StatusIs(response', 200)
                           /\ ~WireHas(response', Location)
                      ELSE /\ StatusIs(response', 201)
                           /\ WireValues(response', Location) = {request'.path}]_vars

\* A second PUT replaced what the first one created, with a shorter body.
C8_Witness ==
    /\ pc = "send"
    /\ conns = 2
    /\ request.method = PUT
    /\ request.path = PATH_WWW_A
    /\ request.body = <<"z">>
    /\ StatusIs(response, 200)
    /\ ~WireHas(response, Location)
    /\ files[PutTarget(PATH_WWW_A)] = <<"z">>

\* The content of the POST log, empty while the file does not exist.
Log(fs_files) == file_content(POST_DATA_FILE, fs_files)

\* C9: the POST log only grows: a step that answers 200 to a POST to /post
\* extends it by that request's entry, and every other step, the handling of
\* a request of any other method included, leaves it as it was.
C9_LogIsAppendOnly ==
    [][LET before == Log(files)
           after == Log(files')
       IN  IF Handled(POST) /\ request'.path = POST_PATH /\ StatusIs(response', 200)
           THEN \E timestamp \in Clock(POST) :
                    after = before \o LogEntry(timestamp, request'.body)
           ELSE after = before]_vars

\* The request path without its query string.
QueryStripped(path) ==
    LET q == Find(path, QUESTION)
    IN  IF q = 0 THEN path ELSE SubSeq(path, 1, q - 1)

\* C10: a GET or HEAD whose path, query removed, contains '..' is answered
\* 404, and a PUT whose path contains '..' is answered 400; the response
\* carries the fixed body of that answer (none for HEAD) and the step leaves
\* every file and directory as it was.
C10_TraversalIsRefused ==
    [][/\ (Handled(GET) /\ Contains(QueryStripped(request'.path), DOTDOT))
            => /\ StatusIs(response', 404)
               /\ WireBody(response') = BODY_404
               /\ files' = files /\ dirs' = dirs
       /\ (Handled(HEAD) /\ Contains(QueryStripped(request'.path), DOTDOT))
            => /\ StatusIs(response', 404)
               /\ WireBody(response') = <<>>
               /\ files' = files /\ dirs' = dirs
       /\ (Handled(PUT) /\ Contains(request'.path, DOTDOT))
            => /\ StatusIs(response', 400)
               /\ WireBody(response') = BODY_400
               /\ files' = files /\ dirs' = dirs]_vars

\* A PUT with '..' between two components was refused.
C10_Witness ==
    /\ pc = "send"
    /\ request.method = PUT
    /\ request.path = PATH_MID
    /\ StatusIs(response, 400)

\* The request line of a buffer: the bytes before its first CRLF, all of it
\* when there is none; and the number of tokens single spaces cut it into.
RequestLine(raw) ==
    LET i == Find(raw, CRLF)
    IN  IF i = 0 THEN raw ELSE SubSeq(raw, 1, i - 1)
TokenCount(raw) ==
    LET line == RequestLine(raw)
    IN  1 + Cardinality({i \in 1..Len(line) : line[i] = SP})

\* C11: when the buffer handed to the parser has a request line that single
\* spaces do not cut into exactly three tokens (the empty buffer and a line
\* with two consecutive spaces included), the response is 400 with the body
\* 'Bad Request', no request is dispatched and no file or directory changes.
C11_WrongTokenCountIsBadRequest ==
    [][(pc = "parse" /\ pc' = "send" /\ TokenCount(raw_request) # 3)
          => /\ request' = NoRequest
             /\ StatusIs(response', 400)
             /\ WireBody(response') = BODY_BAD_REQUEST
             /\ files' = files /\ dirs' = dirs]_vars

\* A buffer was refused by the parser and the 400 is about to be sent.
C11_Witness ==
    /\ pc = "send"
    /\ request = NoRequest
    /\ StatusIs(response, 400)
    /\ WireBody(response) = BODY_BAD_REQUEST

\* The step on which a parsed request was dispatched to handle_request.
Dispatched == pc = "parse" /\ pc' = "send" /\ request' # NoRequest

\* The request is one the server does not serve: a method token other than
\* GET, POST, PUT, HEAD as written, or a POST to a path other than '/post'.
NotServed(req) ==
    \/ req.method \notin {GET, POST, PUT, HEAD}
    \/ req.method = POST /\ req.path # POST_PATH

\* C12: a dispatched request is answered 405 exactly when its method token is
\* not GET, POST, PUT or HEAD, compared with case, or it is a POST to a path
\* other than the literal '/post'; the 405 carries 'Allow: GET, POST, PUT,
\* HEAD' and the body 'Method Not Allowed', and the step changes no file,
\* directory or log.
C12_MethodNotAllowed ==
    [][Dispatched =>
          /\ StatusIs(response', 405) <=> NotServed(request')
          /\ NotServed(request') =>
                /\ WireValues(response', Allow) = {ALLOWED_METHODS}
                /\ WireBody(response') = BODY_405
                /\ files' = files /\ dirs' = dirs]_vars

\* A POST to '/post?x' was answered 405.
C12_Witness ==
    /\ pc = "send"
    /\ request.method = POST
    /\ request.path = PATH_POST_QUERY
    /\ StatusIs(response, 405)
    /\ WireValues(response, Allow) = {ALLOWED_METHODS}

\* The path resolves to a regular file that exists.
ResolvesToFile(path, fs_files) ==
    LET filepath == resolve_path(path)
    IN  filepath # None /\ isfile(filepath, fs_files)

\* C13: a GET and a HEAD handled for a path that resolves to an existing
\* regular file, the file operation not failing, are both answered 200 with
\* the Content-Type of that file and, as Content-Length, the file's byte
\* count, so the two agree on any one filesystem; GET's body is the file's
\* bytes and HEAD's body is empty; neither changes a file or directory.
C13_HeadMatchesGet ==
    [][(Dispatched /\ request'.method \in {GET, HEAD}
           /\ ResolvesToFile(request'.path, files) /\ ~StatusIs(response', 500))
          => LET filepath == resolve_path(request'.path)
                 file == file_content(filepath, files)
                 type == get_mime_type(filepath)
             IN  /\ StatusIs(response', 200)
                 /\ WireValues(response', Content_Type) = {type}
                 /\ WireValues(response', Content_Length) = {Str(Len(file))}
                 /\ WireBody(response') = IF request'.method = GET THEN file ELSE <<>>
                 /\ files' = files /\ dirs' = dirs]_vars

\* A HEAD was answered for a one-byte file an earlier PUT stored under the
\* server root.
C13_Witness ==
    /\ pc = "send"
    /\ request.method = HEAD
    /\ request.path = PATH_A
    /\ StatusIs(response, 200)
    /\ WireValues(response, Content_Length) = {<<"1">>}
    /\ WireValues(response, Content_Type) = {application_octet_stream}

\* C14: the body handed to the handler of a POST or PUT request that has no
\* Content-Length header is empty.
C14_NoLengthMeansEmptyBody ==
    (pc = "send" /\ request.method \in {POST, PUT}
        /\ ~DictHas(request.headers, KEY_CONTENT_LENGTH))
        => request.body = <<>>

\* C15: a request is parsed and dispatched to a handler only from a buffer
\* that contains the header terminator CRLF CRLF.
C15_DispatchedBufferHasTerminator ==
    [][Dispatched => Contains(raw_request, CRLFCRLF)]_vars

\* C16: with no KeyboardInterrupt the server never stops; a connection is
\* accepted only when none is open, the one before it having been closed;
\* and every accepted connection, whatever happens on it, leads to the
\* server being back at accept with that connection closed, given that each
\* recv eventually returns.
C16_ServerKeepsAccepting ==
    /\ [](pc # "stopped")
    /\ [][(pc = "accept" /\ pc' # "accept") => (pc' = "recv" /\ (conns = 0 \/ closes = 1))]_vars
    /\ (pc \in {"recv", "recv_body", "parse", "send", "close"})
           ~> (pc = "accept" /\ closes = 1)

\* The server is back at accept after a connection that ended in an exception
\* and one before it.
C16_Witness ==
    /\ pc = "accept"
    /\ conns = 2
    /\ closes = 1
    /\ exc = "ValueError"

\* The status codes of the specification, as they appear on the wire.
StatusCodes == {Str(200), Str(201), Str(400), Str(404), Str(405), Str(500)}

\* C17: every response built has one of the status codes 200, 201, 400, 404,
\* 405, 500; a 201 is built only by a PUT on the step that brings its target
\* file into existence; a Location header appears only on a 201 and an Allow
\* header only on a 405.
C17_StatusCodesAndTheirHeaders ==
    [][(pc = "parse" /\ pc' = "send")
          => /\ WireStatus(response') \in StatusCodes
             /\ StatusIs(response', 201)
                  => /\ request'.method = PUT
                     /\ PutTarget(request'.path) \notin DOMAIN files
                     /\ PutTarget(request'.path) \in DOMAIN files'
             /\ WireHas(response', Location) => StatusIs(response', 201)
             /\ WireHas(response', Allow) => StatusIs(response', 405)]_vars

\* A PUT created its target and the 201 with Location is about to be sent.
C17_Witness ==
    /\ pc = "send"
    /\ request.method = PUT
    /\ StatusIs(response, 201)
    /\ WireValues(response, Location) = {PATH_WWW_A}
    /\ ~WireHas(response, Allow)

\* C18: a HEAD answered 404 has an empty body and Content-Length 14, and
\* that is the Content-Length of the 404 a GET for the same path gets on the
\* same filesystem.
C18_Head404LengthIsGet404Length ==
    [][(Handled(HEAD) /\ StatusIs(response', 404))
          => LET get == handle_get(request'.path, files, dirs, "none").response
             IN  /\ WireBody(response') = <<>>
                 /\ WireValues(response', Content_Length) = {<<"1", "4">>}
                 /\ StatusIs(get, 404)
                 /\ WireValues(get, Content_Length) = WireValues(response', Content_Length)]_vars

\* The byte stream is a header block ending in CRLF CRLF followed by exactly
\* the declared Content-Length bytes, or by nothing when none is declared.
Exact(stream) ==
    /\ Contains(stream, CRLFCRLF)
    /\ LET req == parse_request(stream)
           body == SubSeq(stream, Find(stream, CRLFCRLF) + 4, Len(stream))
       IN  IF req = NoRequest \/ ~DictHas(req.headers, KEY_CONTENT_LENGTH)
           THEN body = <<>>
           ELSE /\ IsIntText(DictGet(req.headers, KEY_CONTENT_LENGTH))
                /\ Len(body) = DeclaredLength(req)

\* The step on which the reader stops though the peer has not closed. Until
\* then raw_request \o unsent is the stream the peer sends.
ReaderStopsOpen == pc \in {"recv", "recv_body"} /\ pc' = "parse" /\ ~chunk_empty'

\* Two parsed requests get the same response and the same filesystem effect
\* from lines 361-368, for each way the file operations and the clock behave.
SameOutcome(got, full) ==
    \/ got = full
    \/ /\ got # NoRequest
       /\ full # NoRequest
       /\ \A fault \in IOFaults(full.method), timestamp \in Clock(full.method) :
            handle_request(got.method, got.path, got.version, got.headers, got.body,
                           files, dirs, fault, timestamp)
          = handle_request(full.method, full.path, full.version, full.headers, full.body,
                           files, dirs, fault, timestamp)

\* C19 as stated: whenever the reader stops on a peer that sends an exact
\* stream and keeps the connection open, however the stream was cut into
\* chunks, the buffer parses to the (method, path, version, headers, body) of
\* the whole stream and gets the response and filesystem effect of the whole
\* stream.
C19_ChunkingNeverChangesTheRequest ==
    [][(ReaderStopsOpen /\ Exact(raw_request \o unsent))
          => LET stream == raw_request \o unsent
                 full == parse_request(stream)
                 got == parse_request(raw_request')
             IN  got = full /\ SameOutcome(got, full)]_vars

\* C19: whenever the reader stops on a peer that sends an exact stream and
\* keeps the connection open, however the stream was cut into chunks, the
\* buffer parses to the method, path, version and headers of the whole
\* stream, to its body as well when the method is POST or PUT, and gets the
\* response and filesystem effect of the whole stream.
C19_ChunkingNeverChangesTheOutcome ==
    [][(ReaderStopsOpen /\ Exact(raw_request \o unsent))
          => LET stream == raw_request \o unsent
                 full == parse_request(stream)
                 got == parse_request(raw_request')
             IN  /\ got.method = full.method
                 /\ got.path = full.path
                 /\ got.version = full.version
                 /\ got.headers = full.headers
                 /\ full.method \in {POST, PUT} => got.body = full.body
                 /\ SameOutcome(got, full)]_vars

\* An exact POST with a two-byte body was read to its end on an open
\* connection.
C19_Witness ==
    /\ pc = "parse"
    /\ ~chunk_empty
    /\ content_length = 2
    /\ Exact(raw_request)
    /\ parse_request(raw_request).method = POST

\* The step runs the handler of a PUT whose path has no '..' or of a POST to
\* '/post', and the answer is not a refusal.
MayWrite ==
    /\ Dispatched
    /\ \/ request'.method = PUT /\ ~Contains(request'.path, DOTDOT)
       \/ request'.method = POST /\ request'.path = POST_PATH
    /\ WireStatus(response') \notin {Str(400), Str(404), Str(405)}

\* C20: files and directories change only on a step that handles a PUT whose
\* path has no '..' or a POST to '/post'. The handling of a GET, a HEAD, a
\* request answered 405 or 400, and every step of a connection that is closed
\* without a response leave every file, PUT targets and the POST log
\* included, and every directory as they were.
C20_OnlyPutAndPostWrite ==
    [][(files' # files \/ dirs' # dirs) => MayWrite]_vars

\* A connection was ended by an exception, with no response, while a file an
\* earlier PUT stored exists.
C20_Witness ==
    /\ pc = "close"
    /\ exc = "ValueError"
    /\ sent = None
    /\ PutTarget(PATH_WWW_A) \in DOMAIN files
====
